---- MODULE Spec2Model ----
(***************************************************************************)
(* A model of generate.py, the Live2D textures.cache generator: the        *)
(* descriptor extractor, the generation walk, preview mode and main.       *)
(*                                                                         *)
(* Strings of the program that are not ASCII are written by name:          *)
(*   "standard"       the label of format 1 (line 18)                      *)
(*   "cubism-3-plus"  the label of format 2 (line 25)                      *)
(*   "unrecognized"   the label returned with None (line 27)               *)
(*   "U+662F"         the one-character answer accepted on line 154        *)
(*   "U+D800.png"     a texture name holding a lone surrogate, which       *)
(*                    json.load accepts (written \ud800 in index.json) and *)
(*                    the UTF-8 file of line 65 cannot encode              *)
(***************************************************************************)
EXTENDS FiniteSets, Integers, Sequences, TLC

VARIABLES
    fs,               \* the directory tree: per directory, index.json and textures.cache
    argv,             \* sys.argv[1:] of the running invocation
    pc,               \* where the invocation stands
    target_directory, \* main's local
    preview,          \* main's local
    pos,              \* position of os.walk in WalkOrder
    processed_count,  \* generate_textures_cache's counters
    skipped_count,
    error_count,
    found_files,      \* preview_mode's list
    response,         \* the answer to the prompt, stripped and lower-cased
    outcome,          \* per directory, what the current generation walk did with it
    opened,           \* directories whose textures.cache the current invocation opened for writing
    helped,           \* the usage text was printed by the current invocation
    start_fs,         \* the tree as it was when the current invocation started
    reported,         \* the current invocation printed the statistics of a generation walk
    last_gen,         \* the tree the previous completed generation walk left, and the caches it opened
    runs,             \* invocations started so far
    data,             \* the extractor's argument (extractor specification)
    result            \* the extractor's return value (extractor specification)

vars == <<fs, argv, pc, target_directory, preview, pos, processed_count,
          skipped_count, error_count, found_files, response, outcome, opened,
          helped, start_fs, reported, last_gen, runs, data, result>>

-----------------------------------------------------------------------------
(* Bounds of the model. *)

MaxLen == 2       \* longest texture list of the extractor's inputs
NumDirs == 2      \* directories os.walk visits under the target directory
MaxRuns == 2      \* invocations of the program in one behaviour

-----------------------------------------------------------------------------
(* JSON values as json.load builds them. *)

None == [kind |-> "None"]
JNull == [kind |-> "null"]
JNum(n) == [kind |-> "number", n |-> n]
JStr(s) == [kind |-> "string", s |-> s]
JArr(items) == [kind |-> "array", items |-> items]
JObj(members) == [kind |-> "object", members |-> members]

NoMembers == [k \in {} |-> JNull]

LoneSurrogate == "U+D800.png"

TextureNames == {"a.png", "b.png", LoneSurrogate}

RECURSIVE SeqsUpTo(_, _)
SeqsUpTo(S, n) ==
    IF n = 0 THEN {<<>>}
    ELSE LET shorter == SeqsUpTo(S, n - 1)
         IN  shorter \cup {Append(q, x) : q \in {p \in shorter : Len(p) = n - 1}, x \in S}

TexLists == {JArr(q) : q \in SeqsUpTo({JStr(s) : s \in TextureNames}, MaxLen)}

-----------------------------------------------------------------------------
(* extract_textures_from_json, lines 6-27.  Python's `in` and `[]` raise    *)
(* TypeError on the values that support neither; main and preview_mode     *)
(* catch it (lines 93 and 140).                                            *)

\* key in container.  A str contains a key as a substring; the model's strings
\* are no longer than a key, so that is equality.
PyContains(key, container) ==
    CASE container.kind = "object" -> key \in DOMAIN container.members
      [] container.kind = "array"  ->
            \E i \in DOMAIN container.items : container.items[i] = JStr(key)
      [] container.kind = "string" -> container.s = key
      [] OTHER -> FALSE

\* `key in container` raises TypeError: None and numbers are not iterable
PyContainsRaises(container) == container.kind \in {"null", "number"}

\* container[key] raises TypeError: a list or a str is not indexed by a str
PyIndexRaises(container) == container.kind # "object"

IsList(v) == v.kind = "array"
IsDict(v) == v.kind = "object"

Returned(textures, format_type) ==
    [raised |-> FALSE, textures |-> textures, format_type |-> format_type]

Raised == [raised |-> TRUE, textures |-> None, format_type |-> "TypeError"]

\* lines 21-27
ExtractCubism(d) ==
    IF PyContains("FileReferences", d)
    THEN IF PyIndexRaises(d) THEN Raised
         ELSE LET file_refs == d.members["FileReferences"]
              IN  IF /\ IsDict(file_refs)
                     /\ PyContains("Textures", file_refs)
                     /\ IsList(file_refs.members["Textures"])
                  THEN Returned(file_refs.members["Textures"], "cubism-3-plus")
                  ELSE Returned(None, "unrecognized")
    ELSE Returned(None, "unrecognized")

\* lines 16-18
ExtractStandard(d) == Returned(d.members["textures"], "standard")

\* a slip: format 2 is tested before format 1
extract_Format2First(d) ==
    IF PyContainsRaises(d) THEN Raised
    ELSE IF ExtractCubism(d).textures # None THEN ExtractCubism(d)
    ELSE IF PyContains("textures", d)
         THEN IF PyIndexRaises(d) THEN Raised
              ELSE IF IsList(d.members["textures"]) THEN ExtractStandard(d)
              ELSE Returned(None, "unrecognized")
    ELSE ExtractCubism(d)

\* a slip: a "textures" key of the wrong type ends the detection
extract_NoFallThrough(d) ==
    IF PyContainsRaises(d) THEN Raised
    ELSE IF PyContains("textures", d)
         THEN IF PyIndexRaises(d) THEN Raised
              ELSE IF IsList(d.members["textures"]) THEN ExtractStandard(d)
              ELSE Returned(None, "unrecognized")
    ELSE ExtractCubism(d)

\* a slip: format 2 is not supported
extract_StandardOnly(d) ==
    IF PyContainsRaises(d) THEN Raised
    ELSE IF PyContains("textures", d)
         THEN IF PyIndexRaises(d) THEN Raised
              ELSE IF IsList(d.members["textures"]) THEN ExtractStandard(d)
              ELSE Returned(None, "unrecognized")
    ELSE Returned(None, "unrecognized")

extract_textures_from_json(d) ==
    IF PyContainsRaises(d) THEN Raised
    ELSE IF PyContains("textures", d)
         THEN IF PyIndexRaises(d) THEN Raised
              ELSE IF IsList(d.members["textures"]) THEN ExtractStandard(d)
              ELSE ExtractCubism(d)
    ELSE ExtractCubism(d)

-----------------------------------------------------------------------------
(* JSON text.  A file's text is a sequence of tokens.                      *)

Punct(c) == [t |-> "punct", v |-> c]
StrTok(s) == [t |-> "string", v |-> s]
Space(w) == [t |-> "space", v |-> w]
Literal(x) == [t |-> "literal", v |-> x]

RECURSIVE Flatten(_)
Flatten(chunks) ==
    IF chunks = <<>> THEN <<>> ELSE Head(chunks) \o Flatten(Tail(chunks))

\* The encoder of one array item (json.encoder, for texture names: a quoted
\* string, non-ASCII characters kept by ensure_ascii=False).
EncodeItem(v) ==
    CASE v.kind = "string" -> <<StrTok(v.s)>>
      [] v.kind = "null"   -> <<Literal("null")>>
      [] v.kind = "number" -> <<Literal(v.n)>>
      [] OTHER             -> <<Literal("...")>>

\* json.dump(textures, f, ensure_ascii=False, indent=4), line 66: the chunks
\* it hands to f.write, one after the other.
json_dump(textures) ==
    LET items == textures.items
        n == Len(items)
    IN  IF n = 0 THEN << <<Punct("["), Punct("]")>> >>
        ELSE [i \in 1..n |->
                (IF i = 1 THEN <<Punct("["), Space("\n    ")>>
                          ELSE <<Punct(","), Space("\n    ")>>)
                \o EncodeItem(items[i])]
             \o << <<Space("\n")>>, <<Punct("]")>> >>

\* f.write(chunk) on the file opened with encoding='utf-8' (line 65) raises
\* UnicodeEncodeError on a lone surrogate.
Utf8Encodable(chunk) ==
    \A i \in DOMAIN chunk : ~(chunk[i].t = "string" /\ chunk[i].v = LoneSurrogate)

\* The chunks written before the first one that raises.
WrittenChunks(chunks) ==
    LET bad == {i \in DOMAIN chunks : ~Utf8Encodable(chunks[i])}
        upto == IF bad = {} THEN Len(chunks)
                ELSE (CHOOSE i \in bad : \A j \in bad : i <= j) - 1
    IN  [text |-> Flatten(SubSeq(chunks, 1, upto)), completed |-> bad = {}]

(* json.load, line 55: a recursive-descent parse of the tokens.  Each      *)
(* operator returns [ok, val, next]; ok = FALSE is JSONDecodeError.        *)

ParseError == [ok |-> FALSE, val |-> JNull, next |-> 0]
Parsed(v, next) == [ok |-> TRUE, val |-> v, next |-> next]

RECURSIVE SkipSpace(_, _)
SkipSpace(toks, i) ==
    IF i <= Len(toks) /\ toks[i].t = "space" THEN SkipSpace(toks, i + 1) ELSE i

IsPunct(toks, i, c) == i <= Len(toks) /\ toks[i] = Punct(c)

RECURSIVE ParseValue(_, _)
RECURSIVE ParseItems(_, _, _)
RECURSIVE ParseMembers(_, _, _)

\* after "[" or ",": a value, then "," or "]"
ParseItems(toks, i, acc) ==
    LET r == ParseValue(toks, i)
        j == SkipSpace(toks, r.next)
    IN  IF ~r.ok THEN ParseError
        ELSE IF IsPunct(toks, j, ",") THEN ParseItems(toks, j + 1, Append(acc, r.val))
        ELSE IF IsPunct(toks, j, "]") THEN Parsed(JArr(Append(acc, r.val)), j + 1)
        ELSE ParseError

\* after "{" or ",": a string, ":", a value, then "," or "}"
ParseMembers(toks, i, acc) ==
    LET k == SkipSpace(toks, i)
    IN  IF ~(k <= Len(toks) /\ toks[k].t = "string") THEN ParseError
        ELSE LET c == SkipSpace(toks, k + 1)
             IN  IF ~IsPunct(toks, c, ":") THEN ParseError
                 ELSE LET r == ParseValue(toks, c + 1)
                          j == SkipSpace(toks, r.next)
                          now == (toks[k].v :> r.val) @@ acc
                      IN  IF ~r.ok THEN ParseError
                          ELSE IF IsPunct(toks, j, ",") THEN ParseMembers(toks, j + 1, now)
                          ELSE IF IsPunct(toks, j, "}") THEN Parsed(JObj(now), j + 1)
                          ELSE ParseError

ParseValue(toks, i) ==
    LET k == SkipSpace(toks, i)
    IN  IF k > Len(toks) THEN ParseError
        ELSE CASE toks[k].t = "string" -> Parsed(JStr(toks[k].v), k + 1)
               [] toks[k] = Literal("null") -> Parsed(JNull, k + 1)
               [] toks[k].t = "literal" /\ toks[k].v \in {"0", "1", "3"} ->
                     Parsed(JNum(toks[k].v), k + 1)
               [] toks[k] = Punct("[") ->
                     IF IsPunct(toks, SkipSpace(toks, k + 1), "]")
                     THEN Parsed(JArr(<<>>), SkipSpace(toks, k + 1) + 1)
                     ELSE ParseItems(toks, k + 1, <<>>)
               [] toks[k] = Punct("{") ->
                     IF IsPunct(toks, SkipSpace(toks, k + 1), "}")
                     THEN Parsed(JObj(NoMembers), SkipSpace(toks, k + 1) + 1)
                     ELSE ParseMembers(toks, k + 1, NoMembers)
               [] OTHER -> ParseError

\* json.load: one value, then nothing but white space
json_load(text) ==
    LET r == ParseValue(text, 1)
    IN  IF r.ok /\ SkipSpace(text, r.next) = Len(text) + 1 THEN r ELSE ParseError

-----------------------------------------------------------------------------
(* The directory tree.  os.walk (lines 45 and 122) visits the directories  *)
(* 1..NumDirs in this order; each holds index.json and textures.cache or   *)
(* not.  An index.json that open() cannot read (line 54) is "unreadable";  *)
(* a textures.cache that open(..., 'w') cannot open (line 65) is not       *)
(* writable.                                                               *)

Dirs == 1..NumDirs

Absent == [kind |-> "absent", text |-> <<>>]
Unreadable == [kind |-> "unreadable", text |-> <<>>]
File(text) == [kind |-> "file", text |-> text]

\* the text of a JSON array of strings, as a descriptor's author writes it
RECURSIVE ItemsText(_)
ItemsText(names) ==
    IF names = <<>> THEN <<>>
    ELSE IF Len(names) = 1 THEN <<StrTok(names[1])>>
    ELSE <<StrTok(names[1]), Punct(",")>> \o ItemsText(Tail(names))

ArrayText(names) == <<Punct("[")>> \o ItemsText(names) \o <<Punct("]")>>

MemberText(key, valueText) == <<StrTok(key), Punct(":")>> \o valueText

ObjectText(membersText) == <<Punct("{")>> \o membersText \o <<Punct("}")>>

StandardText(names) == ObjectText(MemberText("textures", ArrayText(names)))

CubismText(names) ==
    ObjectText(MemberText("FileReferences", ObjectText(MemberText("Textures", ArrayText(names)))))

NeitherText == ObjectText(MemberText("foo", <<StrTok("bar")>>))

NullText == <<Literal("null")>>

MalformedText == <<Punct("{"), Literal("bad")>>

\* the descriptors the extractor recognizes: an empty list, two names in an
\* order, a name the cache file cannot encode, and format 2
RecognizedTexts ==
    { StandardText(<<>>), StandardText(<<"a.png", "b.png">>),
      StandardText(<<"a.png", LoneSurrogate>>), CubismText(<<"b.png", "a.png">>) }

\* the descriptors that end an iteration before line 60
OtherTexts == {NeitherText, NullText, MalformedText}

IndexFiles == {Absent, Unreadable} \cup {File(t) : t \in RecognizedTexts \cup OtherTexts}

StaleText == ArrayText(<<"old.png">>)

StaleCache == [kind |-> "file", text |-> StaleText, writable |-> TRUE]

CacheFiles ==
    { [kind |-> "absent", text |-> <<>>, writable |-> TRUE],
      StaleCache,
      [kind |-> "absent", text |-> <<>>, writable |-> FALSE] }

\* A directory of the tree.  Beside a descriptor that is not recognized the
\* cache is a file of an earlier run, which shows whether it is touched.
Entries ==
    { e \in [index : IndexFiles, cache : CacheFiles] :
        e.index \in {File(t) : t \in RecognizedTexts} \/ e.cache = StaleCache }

Trees == [Dirs -> Entries]

\* Path(directory).exists(), lines 36 and 113
Exists(directory) == directory \in {".", "models"}

-----------------------------------------------------------------------------
(* One iteration of the walk: lines 51-66 and 126-139.                     *)

\* open(cache_path, 'a'): a slip that keeps what the file held
OpenForWrite_Append(cache) == [kind |-> "file", text |-> cache.text, writable |-> TRUE]

\* open(cache_path, 'w'), line 65: the file is created or truncated
OpenForWrite(cache) == [kind |-> "file", text |-> <<>>, writable |-> TRUE]

\* lines 54-58: open, json.load, extract_textures_from_json
\*   "none"        no index.json (line 51 / 126)
\*   "json_error"  json.JSONDecodeError (line 89)
\*   "error"       any other exception (line 93)
\*   "extracted"   the extractor returned
ReadDescriptor(index) ==
    IF index.kind = "absent" THEN [step |-> "none", got |-> Raised]
    ELSE IF index.kind = "unreadable" THEN [step |-> "error", got |-> Raised]
    ELSE LET loaded == json_load(index.text)
         IN  IF ~loaded.ok THEN [step |-> "json_error", got |-> Raised]
             ELSE LET got == extract_textures_from_json(loaded.val)
                  IN  IF got.raised THEN [step |-> "error", got |-> got]
                      ELSE [step |-> "extracted", got |-> got]

\* lines 60-66: what becomes of textures.cache, and how the iteration ends
WriteCache(cache, textures) ==
    IF ~cache.writable
    THEN [cache |-> cache, opened |-> FALSE, outcome |-> "error"]
    ELSE LET f == OpenForWrite(cache)
             w == WrittenChunks(json_dump(textures))
         IN  [cache |-> [f EXCEPT !.text = f.text \o w.text],
              opened |-> TRUE,
              outcome |-> IF w.completed THEN "processed" ELSE "error"]

\* lines 51-96 for one directory
ProcessDirectory(entry) ==
    LET r == ReadDescriptor(entry.index)
    IN  IF r.step # "extracted"
        THEN [cache |-> entry.cache, opened |-> FALSE, outcome |-> r.step]
        ELSE IF r.got.textures # None
        THEN WriteCache(entry.cache, r.got.textures)
        ELSE [cache |-> entry.cache, opened |-> FALSE, outcome |-> "skipped"]

-----------------------------------------------------------------------------
(* main, lines 163-200.                                                    *)

HelpFlags == {"-h", "--help"}
PreviewFlags == {"--preview", "-p"}

\* arg.startswith('-'), line 186, on the arguments of the model
StartsWithDash(arg) == arg \in HelpFlags \cup PreviewFlags

\* lines 184-188
TargetOf(a) ==
    LET plain == {i \in DOMAIN a : ~StartsWithDash(a[i])}
    IN  IF plain = {} THEN "."
        ELSE a[CHOOSE i \in plain : \A j \in plain : i <= j]

\* line 181
PreviewOf(a) == \E i \in DOMAIN a : a[i] \in PreviewFlags

\* the command lines of the model
Argvs ==
    { <<>>, <<"missing">>, <<"models", "-p">>, <<"-h">>, <<"models", "--help">> }

NotRead == "(not read)"

NoOutcome == [d \in Dirs |-> "none"]

\* what every invocation starts with
Fresh(a) ==
    /\ pc \in {"idle", "exit"}
    /\ runs < MaxRuns
    /\ runs' = runs + 1
    /\ argv' = a
    /\ start_fs' = fs
    /\ last_gen' = IF reported THEN [valid |-> TRUE, fs |-> fs, opened |-> opened]
                   ELSE last_gen
    /\ reported' = FALSE
    /\ opened' = {}
    /\ outcome' = NoOutcome
    /\ response' = NotRead
    /\ found_files' = <<>>
    /\ processed_count' = 0
    /\ skipped_count' = 0
    /\ error_count' = 0
    /\ pos' = 1
    /\ UNCHANGED <<fs, data, result>>

\* line 169
HelpAsked(a) == Len(a) > 0 /\ a[1] \in HelpFlags

\* lines 168-179: the usage text, and return
MainHelp(a) ==
    /\ HelpAsked(a)
    /\ Fresh(a)
    /\ helped' = TRUE
    /\ preview' = FALSE
    /\ target_directory' = "."
    /\ pc' = "exit"

\* lines 181-200 and the first lines of the function called (34-42, 111-120)
MainRun(a) ==
    /\ ~HelpAsked(a)
    /\ Fresh(a)
    /\ helped' = FALSE
    /\ preview' = PreviewOf(a)
    /\ target_directory' = TargetOf(a)
    /\ pc' = IF ~Exists(TargetOf(a)) THEN "exit"
             ELSE IF PreviewOf(a) THEN "scan" ELSE "walk"

main == \E a \in Argvs : MainHelp(a) \/ MainRun(a)

-----------------------------------------------------------------------------
(* generate_textures_cache, lines 29-105.                                  *)

\* lines 45-98: one iteration of the loop
GenerateStep ==
    /\ pc = "walk"
    /\ pos <= NumDirs
    /\ LET done == ProcessDirectory(fs[pos])
       IN  /\ fs' = [fs EXCEPT ![pos].cache = done.cache]
           /\ opened' = IF done.opened THEN opened \cup {pos} ELSE opened
           /\ outcome' = [outcome EXCEPT ![pos] = done.outcome]
           /\ processed_count' = processed_count + (IF done.outcome = "processed" THEN 1 ELSE 0)
           /\ skipped_count' = skipped_count + (IF done.outcome = "skipped" THEN 1 ELSE 0)
           /\ error_count' =
                 error_count + (IF done.outcome \in {"json_error", "error"} THEN 1 ELSE 0)
    /\ pos' = pos + 1
    /\ UNCHANGED <<argv, pc, target_directory, preview, found_files, response, helped,
                   start_fs, reported, last_gen, runs, data, result>>

\* lines 100-105: the statistics
GenerateReport ==
    /\ pc = "walk"
    /\ pos > NumDirs
    /\ reported' = TRUE
    /\ pc' = "exit"
    /\ UNCHANGED <<fs, argv, target_directory, preview, pos, processed_count, skipped_count,
                   error_count, found_files, response, outcome, opened, helped, start_fs,
                   last_gen, runs, data, result>>

-----------------------------------------------------------------------------
(* preview_mode, lines 107-161.                                            *)

FileInfo(path, got) ==
    [path |-> path, format |-> got.format_type,
     texture_count |-> Len(got.textures.items), textures |-> got.textures]

\* lines 122-141: one iteration of the scan; the bare except drops every failure
ScanStep ==
    /\ pc = "scan"
    /\ pos <= NumDirs
    /\ LET r == ReadDescriptor(fs[pos].index)
       IN  found_files' =
              IF r.step = "extracted" /\ r.got.textures # None
              THEN Append(found_files, FileInfo(pos, r.got))
              ELSE found_files
    /\ pos' = pos + 1
    /\ UNCHANGED <<fs, argv, pc, target_directory, preview, processed_count, skipped_count,
                   error_count, response, outcome, opened, helped, start_fs, reported,
                   last_gen, runs, data, result>>

\* lines 143-150 and 160-161: the list is printed, or nothing was found
ScanReport ==
    /\ pc = "scan"
    /\ pos > NumDirs
    /\ pc' = IF found_files # <<>> THEN "prompt" ELSE "exit"
    /\ UNCHANGED <<fs, argv, target_directory, preview, pos, processed_count, skipped_count,
                   error_count, found_files, response, outcome, opened, helped, start_fs,
                   reported, last_gen, runs, data, result>>

\* what the user may type
Typed == {"y", " Yes ", "U+662F", "", "n"}

\* .strip().lower(), line 153, on what the user may type
StripLower(typed) == IF typed = " Yes " THEN "yes" ELSE typed

\* a slip: an empty answer counts as yes
Affirmative_DefaultYes == {"y", "yes", "U+662F", ""}

\* line 154
Affirmative == {"y", "yes", "U+662F"}

\* lines 153-159: the answer, then generate_textures_cache (lines 34-42) or not
Answer ==
    /\ pc = "prompt"
    /\ \E typed \in Typed :
          /\ response' = StripLower(typed)
          /\ pc' = IF StripLower(typed) \in Affirmative THEN "walk" ELSE "exit"
    /\ pos' = 1
    /\ processed_count' = 0
    /\ skipped_count' = 0
    /\ error_count' = 0
    /\ UNCHANGED <<fs, argv, target_directory, preview, found_files, outcome, opened,
                   helped, start_fs, reported, last_gen, runs, data, result>>

-----------------------------------------------------------------------------
(* The program, invoked up to MaxRuns times over a tree nothing else       *)
(* changes.                                                                *)

NotCalled == [raised |-> FALSE, textures |-> None, format_type |-> "(not called)"]

Init ==
    /\ fs \in Trees
    /\ argv = <<>>
    /\ pc = "idle"
    /\ target_directory = "."
    /\ preview = FALSE
    /\ pos = 1
    /\ processed_count = 0
    /\ skipped_count = 0
    /\ error_count = 0
    /\ found_files = <<>>
    /\ response = NotRead
    /\ outcome = NoOutcome
    /\ opened = {}
    /\ helped = FALSE
    /\ start_fs = fs
    /\ reported = FALSE
    /\ last_gen = [valid |-> FALSE, fs |-> fs, opened |-> {}]
    /\ runs = 0
    /\ data = JNull
    /\ result = NotCalled

Next == main \/ GenerateStep \/ GenerateReport \/ ScanStep \/ ScanReport \/ Answer

Spec == Init /\ [][Next]_vars

-----------------------------------------------------------------------------
(* The extractor alone: every document of Documents, then the call.        *)

Missing == [kind |-> "missing"]

\* values that are neither a list nor, for FileReferences, a dict
WrongTyped == {JStr("x"), JNull, JNum("3")}

Member(key, v) == IF v = Missing THEN NoMembers ELSE key :> v

\* the values a "FileReferences" member may have
FileReferencesValues ==
    {Missing} \cup WrongTyped \cup {JArr(<<>>)}
    \cup {JObj(Member("Textures", t)) : t \in {Missing, JObj(NoMembers)} \cup WrongTyped \cup TexLists}

\* the objects: "textures", "FileReferences" and another key, each there or not
Objects ==
    { JObj(Member("textures", t) @@ Member("FileReferences", f) @@ Member("foo", o)) :
        t \in {Missing, JObj(NoMembers)} \cup WrongTyped \cup TexLists,
        f \in FileReferencesValues,
        o \in {Missing, JStr("bar")} }

\* what json.load returns for a document that is not an object
NonObjects ==
    { JNull, JNum("3"), JStr("x"), JStr("textures"), JStr("FileReferences"), JArr(<<>>),
      JArr(<<JStr("textures")>>), JArr(<<JStr("FileReferences")>>) }

Documents == Objects \cup NonObjects

\* line 58
CallExtract ==
    /\ result = NotCalled
    /\ result' = extract_textures_from_json(data)
    /\ UNCHANGED <<fs, argv, pc, target_directory, preview, pos, processed_count,
                   skipped_count, error_count, found_files, response, outcome, opened,
                   helped, start_fs, reported, last_gen, runs, data>>

InitExtract ==
    /\ data \in Documents
    /\ result = NotCalled
    /\ fs = [d \in Dirs |-> [index |-> Absent, cache |-> StaleCache]]
    /\ argv = <<>>
    /\ pc = "idle"
    /\ target_directory = "."
    /\ preview = FALSE
    /\ pos = 1
    /\ processed_count = 0
    /\ skipped_count = 0
    /\ error_count = 0
    /\ found_files = <<>>
    /\ response = NotRead
    /\ outcome = NoOutcome
    /\ opened = {}
    /\ helped = FALSE
    /\ start_fs = fs
    /\ reported = FALSE
    /\ last_gen = [valid |-> FALSE, fs |-> fs, opened |-> {}]
    /\ runs = 0

NextExtract == CallExtract

SpecExtract == InitExtract /\ [][NextExtract]_vars

-----------------------------------------------------------------------------
(* What the claims speak of, stated without the program's own extractor.   *)

HasList(obj, key) == key \in DOMAIN obj.members /\ obj.members[key].kind = "array"

HasNestedList(obj) ==
    /\ "FileReferences" \in DOMAIN obj.members
    /\ obj.members["FileReferences"].kind = "object"
    /\ HasList(obj.members["FileReferences"], "Textures")

\* the shape of a document: "standard", "cubism-3-plus" or "unrecognized"
ShapeOf(doc) ==
    IF doc.kind # "object" THEN "unrecognized"
    ELSE IF HasList(doc, "textures") THEN "standard"
    ELSE IF HasNestedList(doc) THEN "cubism-3-plus"
    ELSE "unrecognized"

\* the texture list of a document that has a shape
ListOf(doc) ==
    IF ShapeOf(doc) = "standard" THEN doc.members["textures"]
    ELSE doc.members["FileReferences"].members["Textures"]

Called == result # NotCalled

\* index.json is there (line 51)
Discovered(tree, d) == tree[d].index.kind # "absent"

\* index.json is there, is JSON, and has one of the two shapes
Recognized(tree, d) ==
    /\ tree[d].index.kind = "file"
    /\ json_load(tree[d].index.text).ok
    /\ ShapeOf(json_load(tree[d].index.text).val) # "unrecognized"

\* its texture list
Textures(tree, d) == ListOf(json_load(tree[d].index.text).val)

\* index.json is there and is not JSON
Malformed(tree, d) ==
    tree[d].index.kind = "file" /\ ~json_load(tree[d].index.text).ok

\* the generation walk has dealt with directory d
Walked(d) == (pc = "walk" /\ d < pos) \/ reported

\* textures.cache holds exactly this list
CacheHolds(tree, d, textures) ==
    /\ tree[d].cache.kind = "file"
    /\ json_load(tree[d].cache.text).ok
    /\ json_load(tree[d].cache.text).val = textures

-----------------------------------------------------------------------------
(* C1.  For every object whose top-level "textures" is a list, the         *)
(* extractor returns exactly that list with the standard label, whatever   *)
(* other keys are present, FileReferences.Textures included.               *)
C1_StandardWins ==
    (Called /\ data.kind = "object" /\ HasList(data, "textures"))
        => result = Returned(data.members["textures"], "standard")

\* an object holding both lists, different ones, and another key, extracted
C1_Witness ==
    /\ Called
    /\ data.kind = "object"
    /\ HasList(data, "textures")
    /\ HasNestedList(data)
    /\ "foo" \in DOMAIN data.members
    /\ data.members["textures"] # data.members["FileReferences"].members["Textures"]
    /\ data.members["textures"].items # <<>>

(* C2.  For every object with no list-valued "textures" and with a         *)
(* FileReferences object holding a list Textures, the extractor returns    *)
(* that nested list with the Cubism 3+ label; and on an object the         *)
(* extractor never fails: a wrong-typed value only makes its rule not      *)
(* match, so that an object of neither shape gives (None, unrecognized).   *)
C2_CubismFallThrough ==
    (Called /\ data.kind = "object")
        => /\ ~result.raised
           /\ (~HasList(data, "textures") /\ HasNestedList(data))
                 => result = Returned(data.members["FileReferences"].members["Textures"],
                                      "cubism-3-plus")
           /\ (~HasList(data, "textures") /\ ~HasNestedList(data))
                 => result = Returned(None, "unrecognized")

\* a "textures" of the wrong type beside a nested list, extracted
C2_Witness ==
    /\ Called
    /\ data.kind = "object"
    /\ "textures" \in DOMAIN data.members
    /\ ~HasList(data, "textures")
    /\ HasNestedList(data)
    /\ data.members["FileReferences"].members["Textures"].items # <<>>

(* C3, as claimed.  In a generation walk a textures.cache is produced for  *)
(* a discovered index.json if and only if the descriptor has one of the    *)
(* two shapes.                                                             *)
C3_CacheIffRecognized ==
    \A d \in Dirs :
        (Walked(d) /\ Discovered(start_fs, d))
            => ((d \in opened) <=> Recognized(start_fs, d))

(* C3, amended.  A textures.cache is produced (created or rewritten) for a *)
(* discovered index.json if and only if the descriptor has one of the two  *)
(* shapes and its textures.cache can be opened for writing; a descriptor   *)
(* of neither shape is counted as skipped and its directory is left as it  *)
(* was.                                                                    *)
C3_CacheIffRecognizedAndWritable ==
    \A d \in Dirs :
        (Walked(d) /\ Discovered(start_fs, d))
            => /\ (d \in opened)
                    <=> (Recognized(start_fs, d) /\ start_fs[d].cache.writable)
               /\ (d \in opened) => fs[d].cache.kind = "file"
               /\ (/\ start_fs[d].index.kind = "file"
                   /\ json_load(start_fs[d].index.text).ok
                   /\ json_load(start_fs[d].index.text).val.kind = "object"
                   /\ ~Recognized(start_fs, d))
                    => (outcome[d] = "skipped" /\ fs[d] = start_fs[d])

\* a finished walk that produced a cache where there was none, left a
\* descriptor of neither shape alone, and could not open a third cache
C3_Witness ==
    /\ reported
    /\ \E d \in Dirs :
          /\ Recognized(start_fs, d)
          /\ start_fs[d].cache.kind = "absent"
          /\ d \in opened
    /\ \E d \in Dirs :
          \/ start_fs[d].index = File(NeitherText) /\ d \notin opened
          \/ Recognized(start_fs, d) /\ ~start_fs[d].cache.writable /\ d \notin opened

(* C4, as claimed, for the caches that can be opened.  After a generation  *)
(* run, for every recognized descriptor the textures.cache beside it holds *)
(* exactly the extracted list (reading it back gives an equal sequence),   *)
(* whatever it held before.                                                *)
C4_CacheHoldsList ==
    reported =>
        \A d \in Dirs :
            (Recognized(start_fs, d) /\ start_fs[d].cache.writable)
                => CacheHolds(fs, d, Textures(start_fs, d))

(* C5, as claimed.  A descriptor that raises while it is read, extracted   *)
(* or written gets no cache file written, and is counted once as an error. *)
C5_NoCacheOnError ==
    /\ error_count = Cardinality({d \in Dirs : outcome[d] \in {"json_error", "error"}})
    /\ \A d \in Dirs :
          outcome[d] \in {"json_error", "error"}
              => (d \notin opened /\ fs[d].cache = start_fs[d].cache)

(* C6.  In preview mode nothing is written during the scan; the generation *)
(* walk runs only after an answer of y, yes or U+662F; after any other     *)
(* answer, or none, the tree at exit is the tree at start.                 *)
C6_PreviewWritesOnlyOnYes ==
    preview =>
        /\ pc \in {"scan", "prompt"} => (fs = start_fs /\ opened = {})
        /\ (pc = "walk" \/ reported) => response \in {"y", "yes", "U+662F"}
        /\ (pc = "exit" /\ response \notin {"y", "yes", "U+662F"})
              => (fs = start_fs /\ opened = {} /\ ~reported)

\* the preview listed a descriptor, the answer was empty, and the program left
C6_Witness ==
    /\ preview
    /\ pc = "exit"
    /\ found_files # <<>>
    /\ response = ""
    /\ fs = start_fs

(* C7.  A generation run that follows a generation run over the same tree  *)
(* opens the same cache files and leaves every file of the tree as the     *)
(* first run left it, token for token.                                     *)
C7_Idempotent ==
    (reported /\ last_gen.valid)
        => (fs = last_gen.fs /\ opened = last_gen.opened)

\* a second run that rewrote a cache the first run had rewritten over a stale one
C7_Witness ==
    /\ reported
    /\ last_gen.valid
    /\ \E d \in Dirs :
          /\ d \in opened
          /\ d \in last_gen.opened
          /\ fs[d].cache.text # <<>>
          /\ fs[d].cache.text # StaleText

(* C8, as claimed.  When -h or --help is anywhere on the command line the  *)
(* usage text is printed and nothing is scanned or written.                *)
C8_HelpBypassesScanning ==
    (pc # "idle" /\ \E i \in DOMAIN argv : argv[i] \in {"-h", "--help"})
        => (helped /\ pc = "exit" /\ ~reported /\ fs = start_fs)

(* C9, as claimed.  At the end of a generation walk the three counters add *)
(* up to the index.json files discovered, succeeded is the number of cache *)
(* files written, an object of neither shape is skipped, and a malformed   *)
(* descriptor is an error.                                                 *)
C9_CountsPartition ==
    reported =>
        /\ processed_count + skipped_count + error_count
              = Cardinality({d \in Dirs : Discovered(start_fs, d)})
        /\ processed_count = Cardinality(opened)
        /\ \A d \in Dirs :
              /\ Malformed(start_fs, d) => outcome[d] = "json_error"
              /\ (/\ start_fs[d].index.kind = "file"
                  /\ json_load(start_fs[d].index.text).ok
                  /\ json_load(start_fs[d].index.text).val.kind = "object"
                  /\ ~Recognized(start_fs, d))
                    => outcome[d] = "skipped"

(* C10, as claimed, for the caches that can be opened.  After a confirmed  *)
(* preview the generation walk writes textures.cache exactly in the        *)
(* directories the preview listed, each with the list the preview          *)
(* collected.                                                              *)
C10_PreviewAgreesWithGeneration ==
    (preview /\ reported) =>
        \A d \in Dirs :
            start_fs[d].cache.writable =>
                /\ (d \in opened) <=> (\E i \in DOMAIN found_files : found_files[i].path = d)
                /\ \A i \in DOMAIN found_files :
                      found_files[i].path = d => CacheHolds(fs, d, found_files[i].textures)

====
